---- MODULE Spec2Model ----
(***************************************************************************)
(* Model of the DM-i-AI-2024 inference utilities:                          *)
(*   - CT_Inpainting/src/models/model.py : the U-Net topology (shapes and  *)
(*     channel layouts of every tensor of UNet.forward),                   *)
(*   - Cell_Classification/src/utils.py  : calculate_custom_score,         *)
(*     get_model, load_model, save_image_as_tif,                           *)
(*   - Cell_Classification/api.py        : the POST /predict handler.      *)
(* Tensors are modelled by their shape and by the layout of their channel  *)
(* dimension; images by their dtype, shape and pixel values.               *)
(***************************************************************************)
EXTENDS Integers, Sequences, FiniteSets, TLC

VARIABLES
    unet,       \* the constructed UNet: its layers and nn.Module.training
    fwd,        \* the tensors of the last UNet.forward call
    gm,         \* the last get_model call: arguments and outcome
    sc,         \* the last calculate_custom_score call
    tif,        \* the last save_image_as_tif call and the file it wrote
    model,      \* the service's process-wide classifier (load_model)
    clock,      \* time.time() of the service, in whole seconds
    files,      \* data/saved_images: unix timestamp -> request whose image it holds
    req,        \* per /predict request: position, steps run, outcome
    errlog      \* per request: number of logger.error lines written

vars == <<unet, fwd, gm, sc, tif, model, clock, files, req, errlog>>

\* The variables of each component.
unetVars == <<unet, fwd>>
serviceVars == <<model, clock, files, req, errlog>>

(***************************************************************************)
(* Bounds of the model.                                                    *)
(***************************************************************************)
MaxBlocks == 4
MaxB == 2

RECURSIVE SumSeq(_)
SumSeq(s) == IF s = <<>> THEN 0 ELSE Head(s) + SumSeq(Tail(s))

(***************************************************************************)
(* U-Net (CT_Inpainting/src/models/model.py)                               *)
(***************************************************************************)
ChannelChoices == {1, 4}

\* Heights and widths of the inputs: the multiples of 8, and two odd sizes.
Sizes == {8 * k : k \in 1..MaxBlocks} \cup {1, 17}

\* A tensor (B, C, H, W); layout lists the runs of channels along dim 1,
\* each with the name of the tensor it came from. ok = FALSE: the call raised.
Tensor(b, layout, h, w) ==
    [ok |-> TRUE, B |-> b, layout |-> layout, H |-> h, W |-> w, err |-> ""]

Raised(msg) == [ok |-> FALSE, B |-> 0, layout |-> <<>>, H |-> 0, W |-> 0, err |-> msg]

NoTensor == Raised("not computed")

Channels(t) == SumSeq([i \in 1..Len(t.layout) |-> t.layout[i].ch])

Run(name, n) == [src |-> name, ch |-> n]

\* nn.Conv2d(cin, cout, kernel_size=k, padding=p)
Conv2d(cin, cout, k, p) == [cin |-> cin, cout |-> cout, k |-> k, p |-> p]

ApplyConv2d(layer, name, t) ==
    IF ~t.ok THEN t
    ELSE IF Channels(t) # layer.cin THEN Raised("conv: channel mismatch")
    ELSE IF t.H + 2 * layer.p - layer.k + 1 < 1 \/ t.W + 2 * layer.p - layer.k + 1 < 1
         THEN Raised("conv: kernel larger than input")
    ELSE Tensor(t.B, <<Run(name, layer.cout)>>,
                t.H + 2 * layer.p - layer.k + 1, t.W + 2 * layer.p - layer.k + 1)

\* nn.BatchNorm2d: in training mode it needs more than one value per channel.
ApplyBatchNorm2d(training, t) ==
    IF ~t.ok THEN t
    ELSE IF training /\ t.B * t.H * t.W = 1
         THEN Raised("Expected more than 1 value per channel when training")
    ELSE t

\* conv_block(in_channels, out_channels): Conv2d, ReLU, BatchNorm2d, twice.
conv_block(in_channels, out_channels) ==
    [conv1 |-> Conv2d(in_channels, out_channels, 3, 1),
     conv2 |-> Conv2d(out_channels, out_channels, 3, 1),
     cin |-> in_channels, cout |-> out_channels]

Apply_conv_block(block, training, name, t) ==
    ApplyBatchNorm2d(training,
        ApplyConv2d(block.conv2, name,
            ApplyBatchNorm2d(training, ApplyConv2d(block.conv1, name, t))))

\* nn.MaxPool2d(kernel_size=2): stride 2, floor.
MaxPool2d(name, t) ==
    IF ~t.ok THEN t
    ELSE IF t.H \div 2 < 1 \/ t.W \div 2 < 1 THEN Raised("pool: output size is too small")
    ELSE Tensor(t.B, <<Run(name, Channels(t))>>, t.H \div 2, t.W \div 2)

\* nn.ConvTranspose2d(cin, cout, kernel_size=2, stride=2)
ConvTranspose2d(cin, cout, k, s) == [cin |-> cin, cout |-> cout, k |-> k, s |-> s]

ApplyConvTranspose2dNoStride(layer, name, t) ==
    IF ~t.ok THEN t
    ELSE IF Channels(t) # layer.cin THEN Raised("upconv: channel mismatch")
    ELSE Tensor(t.B, <<Run(name, layer.cout)>>, t.H - 1 + layer.k, t.W - 1 + layer.k)

ApplyConvTranspose2d(layer, name, t) ==
    IF ~t.ok THEN t
    ELSE IF Channels(t) # layer.cin THEN Raised("upconv: channel mismatch")
    ELSE Tensor(t.B, <<Run(name, layer.cout)>>,
                (t.H - 1) * layer.s + layer.k, (t.W - 1) * layer.s + layer.k)

\* torch.cat((a, b), dim=1)
cat(a, b) ==
    IF ~a.ok THEN a
    ELSE IF ~b.ok THEN b
    ELSE IF a.B # b.B \/ a.H # b.H \/ a.W # b.W THEN Raised("cat: sizes of tensors must match")
    ELSE Tensor(a.B, a.layout \o b.layout, a.H, a.W)

\* UNet.__init__(in_channels, out_channels)
UNetLayersNarrowDec(in_channels, out_channels) ==
    [enc_conv0 |-> conv_block(in_channels, 64),
     enc_conv1 |-> conv_block(64, 128),
     enc_conv2 |-> conv_block(128, 256),
     enc_conv3 |-> conv_block(256, 512),
     enc_conv4 |-> conv_block(512, 1024),
     upconv3 |-> ConvTranspose2d(1024, 512, 2, 2),
     dec_conv3 |-> conv_block(1024, 512),
     upconv2 |-> ConvTranspose2d(512, 256, 2, 2),
     dec_conv2 |-> conv_block(512, 256),
     upconv1 |-> ConvTranspose2d(256, 128, 2, 2),
     dec_conv1 |-> conv_block(128, 128),
     upconv0 |-> ConvTranspose2d(128, 64, 2, 2),
     dec_conv0 |-> conv_block(128, 64),
     final_conv |-> Conv2d(64, out_channels, 1, 0),
     in_channels |-> in_channels,
     out_channels |-> out_channels,
     training |-> TRUE]

UNetLayers(in_channels, out_channels) ==
    [enc_conv0 |-> conv_block(in_channels, 64),
     enc_conv1 |-> conv_block(64, 128),
     enc_conv2 |-> conv_block(128, 256),
     enc_conv3 |-> conv_block(256, 512),
     enc_conv4 |-> conv_block(512, 1024),
     upconv3 |-> ConvTranspose2d(1024, 512, 2, 2),
     dec_conv3 |-> conv_block(1024, 512),
     upconv2 |-> ConvTranspose2d(512, 256, 2, 2),
     dec_conv2 |-> conv_block(512, 256),
     upconv1 |-> ConvTranspose2d(256, 128, 2, 2),
     dec_conv1 |-> conv_block(256, 128),
     upconv0 |-> ConvTranspose2d(128, 64, 2, 2),
     dec_conv0 |-> conv_block(128, 64),
     final_conv |-> Conv2d(64, out_channels, 1, 0),
     in_channels |-> in_channels,
     out_channels |-> out_channels,
     training |-> TRUE]

\* UNet.forward(x): every tensor the method binds, in program order.
forward(net, x) ==
    LET tr == net.training
        enc0 == Apply_conv_block(net.enc_conv0, tr, "enc0", x)
        enc0_pool == MaxPool2d("enc0_pool", enc0)
        enc1 == Apply_conv_block(net.enc_conv1, tr, "enc1", enc0_pool)
        enc1_pool == MaxPool2d("enc1_pool", enc1)
        enc2 == Apply_conv_block(net.enc_conv2, tr, "enc2", enc1_pool)
        enc2_pool == MaxPool2d("enc2_pool", enc2)
        enc3 == Apply_conv_block(net.enc_conv3, tr, "enc3", enc2_pool)
        enc3_pool == MaxPool2d("enc3_pool", enc3)
        bottleneck == Apply_conv_block(net.enc_conv4, tr, "bottleneck", enc3_pool)
        up3 == ApplyConvTranspose2d(net.upconv3, "up3", bottleneck)
        cat3 == cat(up3, enc3)
        dec3 == Apply_conv_block(net.dec_conv3, tr, "dec3", cat3)
        up2 == ApplyConvTranspose2d(net.upconv2, "up2", dec3)
        cat2 == cat(up2, enc2)
        dec2 == Apply_conv_block(net.dec_conv2, tr, "dec2", cat2)
        up1 == ApplyConvTranspose2d(net.upconv1, "up1", dec2)
        cat1 == cat(up1, enc1)
        dec1 == Apply_conv_block(net.dec_conv1, tr, "dec1", cat1)
        up0 == ApplyConvTranspose2d(net.upconv0, "up0", dec1)
        cat0 == cat(up0, enc0)
        dec0 == Apply_conv_block(net.dec_conv0, tr, "dec0", cat0)
        out == ApplyConv2d(net.final_conv, "out", dec0)
    IN [ran |-> TRUE, training |-> tr, x |-> x,
        enc |-> <<enc0, enc1, enc2, enc3>>,
        bottleneck |-> bottleneck,
        up |-> <<up0, up1, up2, up3>>,
        cat |-> <<cat0, cat1, cat2, cat3>>,
        dec |-> <<dec0, dec1, dec2, dec3>>,
        out |-> out]

NoForward ==
    [ran |-> FALSE, training |-> TRUE, x |-> NoTensor,
     enc |-> <<NoTensor, NoTensor, NoTensor, NoTensor>>,
     bottleneck |-> NoTensor,
     up |-> <<NoTensor, NoTensor, NoTensor, NoTensor>>,
     cat |-> <<NoTensor, NoTensor, NoTensor, NoTensor>>,
     dec |-> <<NoTensor, NoTensor, NoTensor, NoTensor>>,
     out |-> NoTensor]

UNetIdle == unet = UNetLayers(4, 1) /\ fwd = NoForward

UNetInit ==
    /\ \E i \in ChannelChoices, o \in ChannelChoices : unet = UNetLayers(i, o)
    /\ fwd = NoForward

\* nn.Module.train(mode): model.train() / model.eval()
Train(mode) ==
    /\ unet' = [unet EXCEPT !.training = mode]
    /\ UNCHANGED <<fwd, gm, sc, tif, serviceVars>>

Forward(b, c, h, w) ==
    /\ fwd' = forward(unet, Tensor(b, <<Run("x", c)>>, h, w))
    /\ UNCHANGED <<unet, gm, sc, tif, serviceVars>>

UNetNext ==
    \/ \E mode \in BOOLEAN : Train(mode)
    \/ \E b \in 1..MaxB, c \in ChannelChoices, h \in Sizes, w \in Sizes :
          Forward(b, c, h, w)


(***************************************************************************)
(* calculate_custom_score (Cell_Classification/src/utils.py)               *)
(***************************************************************************)
MaxLen == 4

Labels == {0, 1}

\* np.sum(mask): the number of positions where the boolean mask holds.
np_sum(mask) == Cardinality({i \in DOMAIN mask : mask[i]})

\* A Python float as an exact fraction num/den (den > 0).
Frac(n, d) == [num |-> n, den |-> d]

calculate_custom_scoreBadTP(y_true, y_pred) ==
    LET n == Len(y_true)
        a0 == np_sum([i \in 1..n |-> y_true[i] = 0 /\ y_pred[i] = 0])
        a1 == np_sum([i \in 1..n |-> y_pred[i] = 1])
        n0 == np_sum([i \in 1..n |-> y_true[i] = 0])
        n1 == np_sum([i \in 1..n |-> y_true[i] = 1])
    IN IF n0 = 0 \/ n1 = 0 THEN Frac(0, 1) ELSE Frac(a0 * a1, n0 * n1)

calculate_custom_score(y_true, y_pred) ==
    LET n == Len(y_true)
        a0 == np_sum([i \in 1..n |-> y_true[i] = 0 /\ y_pred[i] = 0])
        a1 == np_sum([i \in 1..n |-> y_true[i] = 1 /\ y_pred[i] = 1])
        n0 == np_sum([i \in 1..n |-> y_true[i] = 0])
        n1 == np_sum([i \in 1..n |-> y_true[i] = 1])
    IN IF n0 = 0 \/ n1 = 0 THEN Frac(0, 1) ELSE Frac(a0 * a1, n0 * n1)

NoScore == [ran |-> FALSE, y_true |-> <<>>, y_pred |-> <<>>, score |-> Frac(0, 1)]

ScoreIdle == sc = NoScore

Score(y_true, y_pred) ==
    /\ sc' = [ran |-> TRUE, y_true |-> y_true, y_pred |-> y_pred,
              score |-> calculate_custom_score(y_true, y_pred)]
    /\ UNCHANGED <<unetVars, gm, tif, serviceVars>>

ScoreNext ==
    \E n \in 0..MaxLen : \E y_true \in [1..n -> Labels], y_pred \in [1..n -> Labels] :
        Score(y_true, y_pred)

(***************************************************************************)
(* get_model (Cell_Classification/src/utils.py)                            *)
(***************************************************************************)
\* Architecture tokens are Python strings: sequences of characters.
Tok_ViT == <<"V", "i", "T">>
Tok_ViT32 == <<"V", "i", "T", "3", "2">>
Tok_ResNet101 == <<"R", "e", "s", "N", "e", "t", "1", "0", "1">>
Tok_ResNet50 == <<"R", "e", "s", "N", "e", "t", "5", "0">>
Tok_EfficientNetB0 == <<"E", "f", "f", "i", "c", "i", "e", "n", "t", "N", "e", "t", "B", "0">>
Tok_EfficientNetB4 == <<"E", "f", "f", "i", "c", "i", "e", "n", "t", "N", "e", "t", "B", "4">>
Tok_MobileNetV3 == <<"M", "o", "b", "i", "l", "e", "N", "e", "t", "V", "3">>
Tok_DenseNet121 == <<"D", "e", "n", "s", "e", "N", "e", "t", "1", "2", "1">>

Recognized ==
    {Tok_ViT, Tok_ViT32, Tok_ResNet101, Tok_ResNet50, Tok_EfficientNetB0,
     Tok_EfficientNetB4, Tok_MobileNetV3, Tok_DenseNet121}

\* Tokens the branches of get_model do not recognize.
OtherTokens ==
    {<<"B", "o", "g", "u", "s">>, <<"v", "i", "t">>, <<"V", "i", "T", "-", "B", "/", "1", "6">>,
     <<"R", "e", "s", "N", "e", "t">>, <<>>}

Tokens == Recognized \cup OtherTokens

\* str.startswith
startswith(s, prefix) == Len(s) >= Len(prefix) /\ SubSeq(s, 1, Len(prefix)) = prefix

\* One submodule of a torchvision model, in forward order. path is its attribute
\* path; params: whether it owns parameters; weights: where its parameters'
\* values come from; fresh: created by get_model itself.
Module(path, kind, params, fin, fout, weights) ==
    [path |-> path, kind |-> kind, params |-> params, in_features |-> fin,
     out_features |-> fout, weights |-> weights, requires_grad |-> params,
     fresh |-> FALSE]

Backbone(path, weights) == Module(path, "Backbone", TRUE, 0, 0, weights)

\* weights=<...>_Weights.DEFAULT if pretrained else None
Weights(pretrained) == IF pretrained THEN "imagenet" ELSE "random"

\* torchvision.models.vit_b_16 / vit_b_32
vit_b(w) ==
    <<Backbone(<<"conv_proj">>, w), Backbone(<<"encoder">>, w),
      Module(<<"heads", "head">>, "Linear", TRUE, 768, 1000, w)>>

\* torchvision.models.resnet50 / resnet101
resnet(w) ==
    <<Backbone(<<"conv1">>, w), Backbone(<<"layer1">>, w), Backbone(<<"layer4">>, w),
      Module(<<"fc">>, "Linear", TRUE, 2048, 1000, w)>>

\* torchvision.models.efficientnet_b0 / efficientnet_b4
efficientnet(w, width) ==
    <<Backbone(<<"features">>, w),
      Module(<<"classifier", "0">>, "Dropout", FALSE, 0, 0, w),
      Module(<<"classifier", "1">>, "Linear", TRUE, width, 1000, w)>>

\* torchvision.models.mobilenet_v3_large
mobilenet_v3_large(w) ==
    <<Backbone(<<"features">>, w),
      Module(<<"classifier", "0">>, "Linear", TRUE, 960, 1280, w),
      Module(<<"classifier", "1">>, "Hardswish", FALSE, 0, 0, w),
      Module(<<"classifier", "2">>, "Dropout", FALSE, 0, 0, w),
      Module(<<"classifier", "3">>, "Linear", TRUE, 1280, 1000, w)>>

\* torchvision.models.densenet121
densenet121(w) ==
    <<Backbone(<<"features">>, w),
      Module(<<"classifier">>, "Linear", TRUE, 1024, 1000, w)>>

IndexOf(modules, path) == CHOOSE i \in 1..Len(modules) : modules[i].path = path

\* model.<path> = nn.Linear(model.<path>.in_features, num_classes)
ReplaceHead(modules, path, num_classes) ==
    LET i == IndexOf(modules, path)
    IN [modules EXCEPT ![i] =
            [path |-> path, kind |-> "Linear", params |-> TRUE,
             in_features |-> modules[i].in_features, out_features |-> num_classes,
             weights |-> "random", requires_grad |-> TRUE, fresh |-> TRUE]]

\* hasattr(model, name) / hasattr(model.heads, 'head')
hasattr(modules, prefix) ==
    \E i \in 1..Len(modules) : startswith(modules[i].path, prefix)

\* for param in model.parameters(): param.requires_grad = False
FreezeAll(modules) ==
    [i \in 1..Len(modules) |-> [modules[i] EXCEPT !.requires_grad = FALSE]]

\* for param in model.<prefix>.parameters(): param.requires_grad = True
Unfreeze(modules, prefix) ==
    [i \in 1..Len(modules) |->
        IF startswith(modules[i].path, prefix) /\ modules[i].params
        THEN [modules[i] EXCEPT !.requires_grad = TRUE]
        ELSE modules[i]]

Returned(name, modules) ==
    [raised |-> FALSE, exc |-> "", msg |-> <<>>, name |-> name, modules |-> modules]

RaisedError(exc, msg) ==
    [raised |-> TRUE, exc |-> exc, msg |-> msg, name |-> <<>>, modules |-> <<>>]

\* The if/elif chain of get_model: the backbone with its head replaced.
Build(model_name, num_classes, pretrained) ==
    LET w == Weights(pretrained)
    IN IF model_name = Tok_ViT THEN ReplaceHead(vit_b(w), <<"heads", "head">>, num_classes)
       ELSE IF model_name = Tok_ViT32
            THEN ReplaceHead(vit_b(w), <<"heads", "head">>, num_classes)
       ELSE IF model_name = Tok_ResNet101 THEN ReplaceHead(resnet(w), <<"fc">>, num_classes)
       ELSE IF model_name = Tok_ResNet50 THEN ReplaceHead(resnet(w), <<"fc">>, num_classes)
       ELSE IF model_name = Tok_EfficientNetB0
            THEN ReplaceHead(efficientnet(w, 1280), <<"classifier", "1">>, num_classes)
       ELSE IF model_name = Tok_EfficientNetB4
            THEN ReplaceHead(efficientnet(w, 1792), <<"classifier", "1">>, num_classes)
       ELSE IF model_name = Tok_MobileNetV3
            THEN ReplaceHead(mobilenet_v3_large(w), <<"classifier", "3">>, num_classes)
       ELSE IF model_name = Tok_DenseNet121
            THEN ReplaceHead(densenet121(w), <<"classifier">>, num_classes)
       ELSE <<>>

\* The `if freeze:` block of get_model.
FreezeBackbone(model_name, modules) ==
    LET frozen == FreezeAll(modules)
    IN IF startswith(model_name, Tok_ViT)
       THEN IF hasattr(frozen, <<"heads">>) /\ hasattr(frozen, <<"heads", "head">>)
            THEN Returned(model_name, Unfreeze(frozen, <<"heads", "head">>))
            ELSE IF hasattr(frozen, <<"classifier">>)
            THEN Returned(model_name, Unfreeze(frozen, <<"classifier">>))
            ELSE RaisedError("AttributeError",
                             <<"Cannot find the classifier head to unfreeze.">>)
       ELSE IF hasattr(frozen, <<"fc">>)
            THEN Returned(model_name, Unfreeze(frozen, <<"fc">>))
            ELSE IF hasattr(frozen, <<"classifier">>)
            THEN Returned(model_name, Unfreeze(frozen, <<"classifier">>))
            ELSE RaisedError("AttributeError",
                             <<"Cannot find the classifier head to unfreeze.">>)

get_modelNoDenseNet(model_name, num_classes, pretrained, freeze) ==
    IF model_name \notin Recognized \ {Tok_DenseNet121}
    THEN RaisedError("ValueError", <<"Unsupported model architecture: ", model_name>>)
    ELSE IF freeze
    THEN FreezeBackbone(model_name, Build(model_name, num_classes, pretrained))
    ELSE Returned(model_name, Build(model_name, num_classes, pretrained))

get_model(model_name, num_classes, pretrained, freeze) ==
    IF Build(model_name, num_classes, pretrained) = <<>>
    THEN RaisedError("ValueError", <<"Unsupported model architecture: ", model_name>>)
    ELSE IF freeze
    THEN FreezeBackbone(model_name, Build(model_name, num_classes, pretrained))
    ELSE Returned(model_name, Build(model_name, num_classes, pretrained))

MaxClasses == 3

NoCall ==
    [ran |-> FALSE, model_name |-> <<>>, num_classes |-> 1, pretrained |-> TRUE,
     freeze |-> TRUE, result |-> RaisedError("", <<>>)]

RegistryIdle == gm = NoCall

GetModel(model_name, num_classes, pretrained, freeze) ==
    /\ gm' = [ran |-> TRUE, model_name |-> model_name, num_classes |-> num_classes,
              pretrained |-> pretrained, freeze |-> freeze,
              result |-> get_model(model_name, num_classes, pretrained, freeze)]
    /\ UNCHANGED <<unetVars, sc, tif, serviceVars>>

RegistryNext ==
    \E model_name \in Tokens, num_classes \in 1..MaxClasses,
       pretrained \in BOOLEAN, freeze \in BOOLEAN :
        GetModel(model_name, num_classes, pretrained, freeze)


(***************************************************************************)
(* save_image_as_tif (Cell_Classification/src/utils.py)                    *)
(***************************************************************************)
MaxW == 2

\* An object handed to save_image_as_tif. isarray: isinstance(image, np.ndarray);
\* shape is (H, W) or (H, W, C); px lists the pixels row by row, a pixel of a
\* 3-dimensional array being the tuple of its channel values.
Image(dtype, shape, px) == [isarray |-> TRUE, dtype |-> dtype, shape |-> shape, px |-> px]

NotAnArray == [isarray |-> FALSE, dtype |-> "list", shape |-> <<>>, px |-> <<>>]

DTypes == {"uint8", "uint16", "int32"}

\* Sample values of each dtype, its extremes included.
Values(dtype) ==
    IF dtype = "uint8" THEN {0, 128, 255}
    ELSE IF dtype = "uint16" THEN {0, 256, 65535}
    ELSE {-1, 7, 65536, 70000}

Images2D ==
    UNION {{Image(d, <<1, w>>, px) : px \in [1..w -> Values(d)]} : d \in DTypes, w \in 1..MaxW}

Images3D ==
    UNION {{Image(d, <<1, 1, c>>, <<px>>) : px \in [1..c -> Values(d)]} :
              d \in DTypes, c \in {1, 3}}

\* cv2.cvtColor(image, cv2.COLOR_BGR2GRAY) on one pixel: fixed point, 15 bits.
BGR2GRAY(p) == (p[1] * 3735 + p[2] * 19235 + p[3] * 9798 + 16384) \div 32768

\* image_gray.astype(np.uint16) on one integer value: reduction modulo 2^16.
astype_uint8(v) == v % 256

astype_uint16(v) == v % 65536

\* The bytes of one 16-bit sample in the file, and the sample read back.
EncodeI16(v) == <<v % 256, v \div 256>>

DecodeI16(b) == b[1] + 256 * b[2]

NoFile == [written |-> FALSE, mode |-> "", size |-> <<0, 0>>, data |-> <<>>]

SaveResult(raised, exc, msg, file) ==
    [raised |-> raised, exc |-> exc, msg |-> msg, file |-> file]

save_image_as_tif(image) ==
    IF ~image.isarray
    THEN SaveResult(TRUE, "ValueError", "Input image is not a valid NumPy array.", NoFile)
    ELSE IF Len(image.shape) = 3 /\ (image.shape[3] \notin {3, 4} \/ image.dtype = "int32")
    THEN SaveResult(TRUE, "cv2.error", "cvtColor: unsupported channels or depth", NoFile)
    ELSE LET image_gray ==
                 IF Len(image.shape) = 3
                 THEN [i \in 1..Len(image.px) |-> BGR2GRAY(image.px[i])]
                 ELSE image.px
             cast == [i \in 1..Len(image_gray) |-> astype_uint16(image_gray[i])]
         IN SaveResult(FALSE, "", "",
                [written |-> TRUE, mode |-> "I;16",
                 size |-> <<image.shape[2], image.shape[1]>>,
                 data |-> [i \in 1..Len(cast) |-> EncodeI16(cast[i])]])

\* PIL.Image.open(path) of the written file, as an array of its samples.
ReadTif(file) == [mode |-> file.mode, size |-> file.size,
                  px |-> [i \in 1..Len(file.data) |-> DecodeI16(file.data[i])]]

NoRead == [mode |-> "", size |-> <<0, 0>>, px |-> <<>>]

NoSave == [ran |-> FALSE, image |-> NotAnArray, result |-> SaveResult(FALSE, "", "", NoFile),
           reread |-> FALSE, read |-> NoRead]

TifIdle == tif = NoSave

SaveImage(image) ==
    /\ tif' = [ran |-> TRUE, image |-> image, result |-> save_image_as_tif(image),
               reread |-> FALSE, read |-> NoRead]
    /\ UNCHANGED <<unetVars, gm, sc, serviceVars>>

ReadBack ==
    /\ tif.ran /\ tif.result.file.written /\ ~tif.reread
    /\ tif' = [tif EXCEPT !.reread = TRUE, !.read = ReadTif(tif.result.file)]
    /\ UNCHANGED <<unetVars, gm, sc, serviceVars>>

TifNext ==
    \/ \E image \in Images2D \cup Images3D \cup {NotAnArray} : SaveImage(image)
    \/ ReadBack


(***************************************************************************)
(* load_model (Cell_Classification/src/utils.py)                           *)
(***************************************************************************)
\* The process-wide classifier. status: "unloaded" before startup, "loaded"
\* once load_model returned, "failed" when it raised (the process never serves).
Classifier(status, name, modules, training, img_size, exc) ==
    [status |-> status, name |-> name, modules |-> modules, training |-> training,
     img_size |-> img_size, exc |-> exc]

Unloaded == Classifier("unloaded", <<>>, <<>>, TRUE, 0, "")

\* model.load_state_dict(state_dict): every parameter takes the checkpoint's value.
load_state_dict(modules) ==
    [i \in 1..Len(modules) |->
        IF modules[i].params THEN [modules[i] EXCEPT !.weights = "checkpoint"] ELSE modules[i]]

\* The checkpoint fits the model when it was saved from the same architecture
\* with the same head width; load_state_dict is strict.
Fits(checkpoint, built) ==
    /\ checkpoint.arch = built.name
    /\ checkpoint.num_classes = built.modules[Len(built.modules)].out_features

load_modelNoEval(checkpoint, model_info) ==
    LET built == get_model(model_info.model_name, 1, TRUE, TRUE)
    IN IF built.raised THEN Classifier("failed", <<>>, <<>>, TRUE, 0, built.exc)
       ELSE IF ~Fits(checkpoint, built)
       THEN Classifier("failed", <<>>, <<>>, TRUE, 0, "RuntimeError")
       ELSE Classifier("loaded", built.name, load_state_dict(built.modules), TRUE,
                       model_info.img_size, "")

load_model(checkpoint, model_info) ==
    LET built == get_model(model_info.model_name, 1, TRUE, TRUE)
    IN IF built.raised THEN Classifier("failed", <<>>, <<>>, TRUE, 0, built.exc)
       ELSE IF ~Fits(checkpoint, built)
       THEN Classifier("failed", <<>>, <<>>, TRUE, 0, "RuntimeError")
       ELSE Classifier("loaded", built.name, load_state_dict(built.modules), FALSE,
                       model_info.img_size, "")

(***************************************************************************)
(* POST /predict (Cell_Classification/api.py)                              *)
(***************************************************************************)
NReq == 2
MaxClock == 1

Requests == 1..NReq

\* An exception object: its class and str(e).
Exc(type, msg) == [type |-> type, msg |-> msg]

NoExc == Exc("", "")

\* What load_sample(request.cell) does with a payload.
\*   "undecodable": it raises; "no_image": the sample holds no image;
\*   "non_array": the image is not an ndarray; "array": an ndarray.
PayloadKinds == {"undecodable", "no_image", "non_array", "array"}

ServiceImages ==
    {Image("uint16", <<1, 2>>, <<0, 65535>>),
     Image("uint8", <<1, 1, 1>>, <<(<<128>>)>>)}

Payloads ==
    {[kind |-> k, image |-> NotAnArray] : k \in PayloadKinds \ {"array"}}
    \cup {[kind |-> "array", image |-> i] : i \in ServiceImages}

load_sample(cell) ==
    IF cell.kind = "undecodable"
    THEN [raised |-> TRUE, exc |-> Exc("binascii.Error", "Incorrect padding"),
          has_image |-> FALSE, image |-> NotAnArray]
    ELSE [raised |-> FALSE, exc |-> NoExc, has_image |-> cell.kind # "no_image",
          image |-> cell.image]

\* What predict(image) returns: an int label, a value the response schema
\* rejects, or an exception.
PredictOutcomes ==
    {[raised |-> FALSE, isint |-> TRUE, value |-> 0, exc |-> NoExc],
     [raised |-> FALSE, isint |-> TRUE, value |-> 1, exc |-> NoExc],
     [raised |-> FALSE, isint |-> FALSE, value |-> 0, exc |-> NoExc],
     [raised |-> TRUE, isint |-> FALSE, value |-> 0,
      exc |-> Exc("RuntimeError", "inference failed")]}

\* predict(image) reads the shared classifier and leaves it as it is.
predict(classifier, outcome) == [result |-> outcome, classifier |-> classifier]

NoReq ==
    [pc |-> "idle", cell |-> [kind |-> "undecodable", image |-> NotAnArray],
     image |-> NotAnArray, has_image |-> FALSE, steps |-> <<>>, exc |-> NoExc,
     saved |-> FALSE, save_path |-> -1, writes |-> 0,
     predicted |-> [raised |-> FALSE, isint |-> FALSE, value |-> 0, exc |-> NoExc],
     seen |-> Unloaded, status |-> 0, body |-> -1, detail |-> "", responses |-> 0]

\* except Exception as e: logger.error(...); raise HTTPException(400, str(e))
except_handlerAs500(rq, e) ==
    [rq |-> [rq EXCEPT !.pc = "done", !.exc = e, !.status = 500, !.detail = e.msg,
                       !.responses = @ + 1],
     log |-> <<e.msg>>]

except_handler(rq, e) ==
    [rq |-> [rq EXCEPT !.pc = "done", !.exc = e, !.status = 400, !.detail = e.msg,
                       !.responses = @ + 1],
     log |-> <<e.msg>>]

\* sample = load_sample(request.cell); image = sample.get("image")
decode_step(rq) ==
    LET sample == load_sample(rq.cell)
        ran == [rq EXCEPT !.steps = Append(@, "decode")]
    IN IF sample.raised THEN except_handler(ran, sample.exc)
       ELSE [rq |-> [ran EXCEPT !.pc = "validate", !.image = sample.image,
                                !.has_image = sample.has_image],
             log |-> <<>>]

\* if image is None: raise ValueError; if not isinstance(image, np.ndarray): raise TypeError
validate_step(rq) ==
    LET ran == [rq EXCEPT !.steps = Append(@, "validate")]
    IN IF ~rq.has_image
       THEN except_handler(ran, Exc("ValueError", "Image decoding failed."))
       ELSE IF ~rq.image.isarray
       THEN except_handler(ran, Exc("TypeError", "Decoded image is not a NumPy array."))
       ELSE [rq |-> [ran EXCEPT !.pc = "persist"], log |-> <<>>]

\* save_path = ...f"image_{int(time.time())}.tif"; save_image_as_tif(image, save_path)
\* io_ok: whether the file system accepts the write.
persist_stepIgnoreFailure(rq, now, io_ok) ==
    LET ran == [rq EXCEPT !.steps = Append(@, "persist"), !.save_path = now]
        res == save_image_as_tif(rq.image)
    IN IF res.raised \/ ~io_ok
       THEN [rq |-> [ran EXCEPT !.pc = "predict"], log |-> <<>>, wrote |-> FALSE]
       ELSE [rq |-> [ran EXCEPT !.pc = "predict", !.saved = TRUE, !.writes = @ + 1],
             log |-> <<>>, wrote |-> TRUE]

persist_step(rq, now, io_ok) ==
    LET ran == [rq EXCEPT !.steps = Append(@, "persist"), !.save_path = now]
        res == save_image_as_tif(rq.image)
    IN IF res.raised
       THEN except_handler(ran, Exc(res.exc, res.msg)) @@ [wrote |-> FALSE]
       ELSE IF ~io_ok
       THEN except_handler(ran, Exc("OSError", "No such file or directory"))
                @@ [wrote |-> FALSE]
       ELSE [rq |-> [ran EXCEPT !.pc = "predict", !.saved = TRUE, !.writes = @ + 1],
             log |-> <<>>, wrote |-> TRUE]

\* predicted_homogenous_state = predict(image)
predict_step(rq, classifier, outcome) ==
    LET ran == [rq EXCEPT !.steps = Append(@, "predict"), !.seen = classifier]
        p == predict(classifier, outcome)
    IN IF p.result.raised
       THEN except_handler(ran, p.result.exc) @@ [classifier |-> p.classifier]
       ELSE [rq |-> [ran EXCEPT !.pc = "respond", !.predicted = p.result],
             log |-> <<>>, classifier |-> p.classifier]

\* response = CellClassificationPredictResponseDto(is_homogenous=...); return response
respond_step(rq) ==
    LET ran == [rq EXCEPT !.steps = Append(@, "respond")]
    IN IF ~rq.predicted.isint
       THEN except_handler(ran, Exc("ValidationError", "value is not a valid integer"))
       ELSE [rq |-> [ran EXCEPT !.pc = "done", !.status = 200,
                                !.body = rq.predicted.value, !.responses = @ + 1],
             log |-> <<>>]

\* Descriptor files and checkpoints the service may be started with.
ModelInfos ==
    {[model_name |-> n, img_size |-> 224] :
        n \in {Tok_MobileNetV3, <<"B", "o", "g", "u", "s">>}}

Checkpoints == {[arch |-> Tok_MobileNetV3, num_classes |-> 1],
                [arch |-> Tok_MobileNetV3, num_classes |-> 2]}

NoSavedFile == 0

ServiceIdle ==
    /\ model = Unloaded
    /\ clock = 0
    /\ files = [t \in 0..MaxClock |-> NoSavedFile]
    /\ req = [r \in Requests |-> NoReq]
    /\ errlog = [r \in Requests |-> <<>>]

\* Startup: the classifier is loaded once, before any request is served.
LoadModel(checkpoint, model_info) ==
    /\ model.status = "unloaded"
    /\ model' = load_model(checkpoint, model_info)
    /\ UNCHANGED <<clock, files, req, errlog, unetVars, gm, sc, tif>>

Tick ==
    /\ clock < MaxClock
    /\ clock' = clock + 1
    /\ UNCHANGED <<model, files, req, errlog, unetVars, gm, sc, tif>>

Arrive(r, cell) ==
    /\ model.status = "loaded"
    /\ req[r].pc = "idle"
    /\ req' = [req EXCEPT ![r] = [@ EXCEPT !.pc = "decode", !.cell = cell]]
    /\ UNCHANGED <<model, clock, files, errlog, unetVars, gm, sc, tif>>

Decode(r) ==
    /\ req[r].pc = "decode"
    /\ LET s == decode_step(req[r])
       IN /\ req' = [req EXCEPT ![r] = s.rq]
          /\ errlog' = [errlog EXCEPT ![r] = @ \o s.log]
    /\ UNCHANGED <<model, clock, files, unetVars, gm, sc, tif>>

Validate(r) ==
    /\ req[r].pc = "validate"
    /\ LET s == validate_step(req[r])
       IN /\ req' = [req EXCEPT ![r] = s.rq]
          /\ errlog' = [errlog EXCEPT ![r] = @ \o s.log]
    /\ UNCHANGED <<model, clock, files, unetVars, gm, sc, tif>>

Persist(r, io_ok) ==
    /\ req[r].pc = "persist"
    /\ LET s == persist_step(req[r], clock, io_ok)
       IN /\ req' = [req EXCEPT ![r] = s.rq]
          /\ errlog' = [errlog EXCEPT ![r] = @ \o s.log]
          /\ files' = IF s.wrote THEN [files EXCEPT ![clock] = r] ELSE files
    /\ UNCHANGED <<model, clock, unetVars, gm, sc, tif>>

Predict(r, outcome) ==
    /\ req[r].pc = "predict"
    /\ LET s == predict_step(req[r], model, outcome)
       IN /\ req' = [req EXCEPT ![r] = s.rq]
          /\ errlog' = [errlog EXCEPT ![r] = @ \o s.log]
          /\ model' = s.classifier
    /\ UNCHANGED <<clock, files, unetVars, gm, sc, tif>>

Respond(r) ==
    /\ req[r].pc = "respond"
    /\ LET s == respond_step(req[r])
       IN /\ req' = [req EXCEPT ![r] = s.rq]
          /\ errlog' = [errlog EXCEPT ![r] = @ \o s.log]
    /\ UNCHANGED <<model, clock, files, unetVars, gm, sc, tif>>

ServiceNext ==
    \/ \E checkpoint \in Checkpoints, model_info \in ModelInfos :
          LoadModel(checkpoint, model_info)
    \/ Tick
    \/ \E r \in Requests, cell \in Payloads : Arrive(r, cell)
    \/ \E r \in Requests : Decode(r)
    \/ \E r \in Requests : Validate(r)
    \/ \E r \in Requests, io_ok \in BOOLEAN : Persist(r, io_ok)
    \/ \E r \in Requests, outcome \in PredictOutcomes : Predict(r, outcome)
    \/ \E r \in Requests : Respond(r)

(***************************************************************************)
(* Specifications: one per component, the other components at rest.        *)
(***************************************************************************)
InitUNet == UNetInit /\ ScoreIdle /\ RegistryIdle /\ TifIdle /\ ServiceIdle

SpecUNet == InitUNet /\ [][UNetNext]_vars

InitScore == UNetIdle /\ ScoreIdle /\ RegistryIdle /\ TifIdle /\ ServiceIdle

SpecScore == InitScore /\ [][ScoreNext]_vars

SpecRegistry == InitScore /\ [][RegistryNext]_vars

SpecTif == InitScore /\ [][TifNext]_vars

Init == InitScore

Next == ServiceNext

Spec == Init /\ [][Next]_vars


(***************************************************************************)
(* Properties                                                              *)
(***************************************************************************)
AllSteps == <<"decode", "validate", "persist", "predict", "respond">>

IsPrefix(s, t) == Len(s) <= Len(t) /\ SubSeq(t, 1, Len(s)) = s

Ran(r, step) == \E i \in 1..Len(req[r].steps) : req[r].steps[i] = step

\* C1: every finished /predict request ended in exactly one of two outcomes:
\* status 200 with an int body, after decoding, validation, saving and
\* prediction all succeeded and with no error line logged; or status 400 whose
\* detail is the message of the error raised, with exactly one error line
\* logged. No request ends with another status, and an unfinished request has
\* no response and no error line.
C1_TwoOutcomes ==
    \A r \in Requests :
        /\ req[r].pc # "done" =>
              req[r].responses = 0 /\ req[r].status = 0 /\ errlog[r] = <<>>
        /\ req[r].pc = "done" =>
              /\ req[r].responses = 1
              /\ \/ /\ req[r].status = 200
                    /\ req[r].exc = NoExc
                    /\ req[r].steps = AllSteps
                    /\ req[r].cell.kind = "array"
                    /\ ~save_image_as_tif(req[r].image).raised
                    /\ req[r].saved
                    /\ ~req[r].predicted.raised /\ req[r].predicted.isint
                    /\ req[r].body = req[r].predicted.value
                    /\ errlog[r] = <<>>
                 \/ /\ req[r].status = 400
                    /\ req[r].exc # NoExc
                    /\ req[r].detail = req[r].exc.msg
                    /\ req[r].body = -1
                    /\ errlog[r] = <<req[r].exc.msg>>
                    /\ \/ req[r].cell.kind # "array"
                       \/ save_image_as_tif(req[r].image).raised
                       \/ ~req[r].saved
                       \/ ~Ran(r, "respond")
                       \/ ~req[r].predicted.isint

\* C1 witness: one request answered 200 and another answered 400 after its
\* image save failed.
C1_Witness ==
    \E r1, r2 \in Requests :
        /\ req[r1].pc = "done" /\ req[r1].status = 200
        /\ req[r2].pc = "done" /\ req[r2].status = 400 /\ req[r2].exc.type = "OSError"

\* C2 as stated: every forward call on a (B, in_channels, H, W) input with H
\* and W divisible by 16 returns a tensor of shape (B, out_channels, H, W).
C2_ShapeForEveryInput ==
    (/\ fwd.ran
     /\ Channels(fwd.x) = unet.in_channels
     /\ fwd.x.H % 16 = 0 /\ fwd.x.W % 16 = 0)
    => /\ fwd.out.ok
       /\ fwd.out.B = fwd.x.B /\ Channels(fwd.out) = unet.out_channels
       /\ fwd.out.H = fwd.x.H /\ fwd.out.W = fwd.x.W

\* C2 amended: for an input (B, in_channels, H, W) with H and W divisible by
\* 16, forward returns a tensor of shape (B, out_channels, H, W) when the module
\* was in eval mode or the bottleneck holds more than one value per channel
\* (B * H/16 * W/16 > 1); in training mode with B * H/16 * W/16 = 1 the call
\* raises in the bottleneck's batch normalisation.
C2_ShapePreserved ==
    (/\ fwd.ran
     /\ Channels(fwd.x) = unet.in_channels
     /\ fwd.x.H % 16 = 0 /\ fwd.x.W % 16 = 0)
    => IF ~fwd.training \/ fwd.x.B * (fwd.x.H \div 16) * (fwd.x.W \div 16) > 1
       THEN /\ fwd.out.ok
            /\ fwd.out.B = fwd.x.B /\ Channels(fwd.out) = unet.out_channels
            /\ fwd.out.H = fwd.x.H /\ fwd.out.W = fwd.x.W
       ELSE /\ ~fwd.out.ok
            /\ fwd.out.err = "Expected more than 1 value per channel when training"

\* C2 witness: a training-mode forward call on a 1 x in_channels x 32 x 16
\* input returned a tensor.
C2_Witness ==
    /\ fwd.ran /\ fwd.training /\ fwd.out.ok
    /\ fwd.x.B = 1 /\ fwd.x.H = 32 /\ fwd.x.W = 16
    /\ Channels(fwd.x) = unet.in_channels

\* C3: get_model returns, for each of the 8 recognized tokens and every
\* pretrained and freeze, a model whose final layer is a new linear layer of
\* width num_classes; for every other token it raises a ValueError naming the
\* token and returns no model.
C3_Total ==
    gm.ran =>
        IF gm.model_name \in Recognized
        THEN /\ ~gm.result.raised
             /\ gm.result.modules # <<>>
             /\ LET last == gm.result.modules[Len(gm.result.modules)]
                IN /\ last.kind = "Linear"
                   /\ last.out_features = gm.num_classes
                   /\ last.fresh
        ELSE /\ gm.result.raised
             /\ gm.result.exc = "ValueError"
             /\ gm.result.msg = <<"Unsupported model architecture: ", gm.model_name>>
             /\ gm.result.modules = <<>>

\* C3 witness: get_model('DenseNet121', 2, pretrained=False, freeze=True) returned.
C3_Witness ==
    /\ gm.ran /\ gm.model_name = Tok_DenseNet121 /\ gm.num_classes = 2
    /\ ~gm.pretrained /\ gm.freeze /\ ~gm.result.raised

\* C4 as stated: after get_model(token, freeze=True) exactly the parameters of
\* the newly substituted final linear layer are trainable.
C4_OnlyNewHeadTrainable ==
    (gm.ran /\ gm.freeze /\ ~gm.result.raised) =>
        \A i \in 1..Len(gm.result.modules) :
            gm.result.modules[i].params =>
                (gm.result.modules[i].requires_grad <=> gm.result.modules[i].fresh)

\* C5: the channel counts of the U-Net fit at every stage, for every
\* in_channels and out_channels: upconv_d's output plus the depth-d skip equals
\* dec_conv_d's declared input, each stage's output equals the next stage's
\* declared input, and every concatenation holds the upsampled channels first,
\* the skip channels second.
C5_ChannelsFit ==
    LET enc == <<unet.enc_conv0, unet.enc_conv1, unet.enc_conv2, unet.enc_conv3>>
        upc == <<unet.upconv0, unet.upconv1, unet.upconv2, unet.upconv3>>
        dec == <<unet.dec_conv0, unet.dec_conv1, unet.dec_conv2, unet.dec_conv3>>
        upn == <<"up0", "up1", "up2", "up3">>
        encn == <<"enc0", "enc1", "enc2", "enc3">>
    IN /\ enc[1].cin = unet.in_channels
       /\ \A d \in 1..3 : enc[d].cout = enc[d + 1].cin
       /\ enc[4].cout = unet.enc_conv4.cin
       /\ unet.enc_conv4.cout = upc[4].cin
       /\ \A d \in 1..4 : upc[d].cout + enc[d].cout = dec[d].cin
       /\ \A d \in 2..4 : dec[d].cout = upc[d - 1].cin
       /\ dec[1].cout = unet.final_conv.cin
       /\ unet.final_conv.cout = unet.out_channels
       /\ \A d \in 1..4 :
             (fwd.ran /\ fwd.up[d].ok /\ fwd.enc[d].ok) =>
                /\ Channels(fwd.up[d]) + Channels(fwd.enc[d]) = dec[d].cin
                /\ fwd.cat[d].ok =>
                      fwd.cat[d].layout = <<Run(upn[d], upc[d].cout), Run(encn[d], enc[d].cout)>>
       /\ (fwd.ran /\ Channels(fwd.x) = unet.in_channels /\ fwd.out.ok) =>
             \A d \in 1..4 : fwd.cat[d].ok /\ fwd.dec[d].ok

\* C5 witness: a forward call of a UNet built with in_channels = 1 and
\* out_channels = 4 ran through every decoder stage.
C5_Witness ==
    /\ fwd.ran /\ fwd.out.ok
    /\ unet.in_channels = 1 /\ unet.out_channels = 4
    /\ \A d \in 1..4 : fwd.cat[d].ok

\* The state load_model leaves the classifier in.
LoadedForInference(m) ==
    /\ ~m.training
    /\ m.modules # <<>>
    /\ m.modules[Len(m.modules)].kind = "Linear"
    /\ m.modules[Len(m.modules)].out_features = 1
    /\ \A i \in 1..Len(m.modules) : m.modules[i].params => m.modules[i].weights = "checkpoint"

C7_OneFilePerRequest ==
    Cardinality({t \in DOMAIN files : files[t] # NoSavedFile})
        = Cardinality({r \in Requests : req[r].saved})

\* C8 as stated: for every array, the file read back holds the original
\* pixel values (the grayscale conversion's, for a 3-dimensional input).
C8_RoundTripEveryArray ==
    tif.reread =>
        /\ tif.read.mode = "I;16"
        /\ tif.read.px =
              IF Len(tif.image.shape) = 3
              THEN [i \in 1..Len(tif.image.px) |-> BGR2GRAY(tif.image.px[i])]
              ELSE tif.image.px

\* C8 amended: the file read back is a single-channel 16-bit image of the
\* input's width and height in which every pixel whose original (grayscale)
\* value is an integer in 0..65535 equals the original; a value outside that
\* range is changed by the cast: it is stored modulo 65536.
C8_RoundTripInRange ==
    tif.reread =>
        LET original ==
                IF Len(tif.image.shape) = 3
                THEN [i \in 1..Len(tif.image.px) |-> BGR2GRAY(tif.image.px[i])]
                ELSE tif.image.px
        IN /\ tif.read.mode = "I;16"
           /\ tif.read.size = <<tif.image.shape[2], tif.image.shape[1]>>
           /\ Len(tif.read.px) = Len(original)
           /\ \A i \in 1..Len(original) :
                 IF original[i] \in 0..65535
                 THEN tif.read.px[i] = original[i]
                 ELSE /\ tif.read.px[i] # original[i]
                      /\ tif.read.px[i] \in 0..65535
                      /\ (original[i] - tif.read.px[i]) % 65536 = 0

\* C8 witness: a 16-bit image holding 256 and 65535 was saved and read back.
C8_Witness ==
    /\ tif.reread
    /\ tif.image.dtype = "uint16"
    /\ tif.image.px = <<256, 65535>>

RECURSIVE CountPairs(_, _, _, _)
CountPairs(y_true, y_pred, t, p) ==
    IF y_true = <<>> THEN 0
    ELSE (IF Head(y_true) = t /\ Head(y_pred) = p THEN 1 ELSE 0)
         + CountPairs(Tail(y_true), Tail(y_pred), t, p)

\* C10: calculate_custom_score returns 0.0 when y_true lacks a class, and
\* otherwise (true negatives * true positives) / (actual 0s * actual 1s); the
\* result lies in [0, 1] and is 1 exactly when both classes are present and
\* every prediction equals its label.
C10_Score ==
    sc.ran =>
        LET tn == CountPairs(sc.y_true, sc.y_pred, 0, 0)
            fp == CountPairs(sc.y_true, sc.y_pred, 0, 1)
            fn == CountPairs(sc.y_true, sc.y_pred, 1, 0)
            tp == CountPairs(sc.y_true, sc.y_pred, 1, 1)
        IN /\ sc.score.den > 0
           /\ 0 <= sc.score.num /\ sc.score.num <= sc.score.den
           /\ (tn + fp = 0 \/ fn + tp = 0) => sc.score = Frac(0, 1)
           /\ (tn + fp > 0 /\ fn + tp > 0) =>
                 sc.score.num * ((tn + fp) * (fn + tp)) = (tn * tp) * sc.score.den
           /\ (sc.score.num = sc.score.den)
                 <=> (tn + fp > 0 /\ fn + tp > 0 /\ sc.y_pred = sc.y_true)

\* C10 witness: a call with both classes present and some but not all
\* predictions right scored strictly between 0 and 1.
C10_Witness ==
    /\ sc.ran
    /\ 0 < sc.score.num /\ sc.score.num < sc.score.den

\* C9: the steps a request has run are a prefix of decode, validate, persist,
\* predict, respond; it persists only a decoded, validated array, and
\* predicts only after its image was saved; it writes at most one file and gets at
\* most one response; a request whose step failed is answered at once and
\* runs nothing more.
C9_StepOrder ==
    [][\A r \in Requests :
          /\ IsPrefix(req'[r].steps, AllSteps)
          /\ req'[r].writes > 0 =>
                /\ IsPrefix(<<"decode", "validate", "persist">>, req'[r].steps)
                /\ req'[r].has_image /\ req'[r].image.isarray
                /\ req'[r].cell.kind = "array"
          /\ (\E i \in 1..Len(req'[r].steps) : req'[r].steps[i] = "predict")
                => req'[r].saved /\ req'[r].writes = 1
          /\ req'[r].writes <= 1 /\ req'[r].responses <= 1
          /\ req'[r].exc # NoExc =>
                req'[r].pc = "done" /\ req'[r].responses = 1 /\ req'[r].status # 200
          /\ req[r].exc # NoExc => req'[r] = req[r]
          /\ req[r].pc = "done" => req'[r] = req[r]]_vars

\* C9 witness: one request failed at validation without writing a file and
\* another ran all five steps.
C9_Witness ==
    \E r1, r2 \in Requests :
        /\ req[r1].steps = <<"decode", "validate">> /\ req[r1].pc = "done"
        /\ req[r1].writes = 0 /\ req[r1].status = 400
        /\ req[r2].steps = AllSteps /\ req[r2].status = 200

====
